---- MODULE Spec2Model ----
(***************************************************************************)
(* TaskFlow (src/app.js): job records kept in an IndexedDB object store,   *)
(* an in-memory copy AppState.jobs, three rendered views and the event     *)
(* handlers that tie them together.                                        *)
(*                                                                         *)
(* Strings the code inspects (titles, tags, the search box, the tags       *)
(* field) are sequences of one-character strings.  Job ids are positive    *)
(* integers, 0 stands for the empty string of the hidden job-id field.     *)
(* Asynchronous store requests wait in `pending` in the order they were    *)
(* issued; the step that completes a request also runs the continuation    *)
(* of the handler that awaited it, up to its next await.                   *)
(***************************************************************************)
EXTENDS Integers, Sequences, FiniteSets, TLC

\* ---------------------------------------------------------------- bounds
MaxIds == 3        \* job ids the user's events name; a fresh id must be within it
MaxPending == 2    \* store requests in flight at once
MaxClock == 3      \* user events in a run; the clock also stamps updatedAt

\* ------------------------------------------------------------ input sets
Columns == <<"todo", "in-progress", "review", "done">>
ColumnSet == {Columns[i] : i \in DOMAIN Columns}
ViewNames == {"dashboard", "kanban", "list"}
\* what the user leaves in the form: (title, status, due date, tags field)
FormSeq ==
    << [title |-> <<"c", "A">>, status |-> "todo", date |-> "2024-06-02",
        tags |-> <<>>],
       [title |-> <<"d">>, status |-> "archived", date |-> "2024-06-01",
        tags |-> <<" ", "B", ",", ",", "a">>],
       [title |-> <<"e">>, status |-> "done", date |-> "", tags |-> <<>>] >>
FormInputs == { FormSeq[i] : i \in DOMAIN FormSeq }
\* what the user leaves in the search box
SearchInputs == { <<>>, <<"B">>, <<"C", "a">> }
\* form.reset() and valueAsDate = new Date()
FormBlank ==
    [id |-> 0, title |-> <<>>, desc |-> <<>>, status |-> "todo",
     priority |-> "medium", date |-> "2024-06-01", tags |-> <<>>]

\* --------------------------------------------------------------- strings
\* String.prototype.toLowerCase, one character
LowerChar(c) == CASE c = "A" -> "a" [] c = "B" -> "b" [] c = "C" -> "c" [] OTHER -> c
toLowerCase(s) == [i \in DOMAIN s |-> LowerChar(s[i])]

\* String.prototype.includes: some window of s equals q
includes(s, q) ==
    \E i \in 1..(Len(s) + 1) :
        /\ i + Len(q) - 1 <= Len(s)
        /\ SubSeq(s, i, i + Len(q) - 1) = q

\* String.prototype.split(',')
RECURSIVE split(_)
split(s) ==
    IF \A i \in DOMAIN s : s[i] # ","
    THEN <<s>>
    ELSE LET k == CHOOSE i \in DOMAIN s :
                      s[i] = "," /\ \A j \in 1..(i - 1) : s[j] # ","
         IN <<SubSeq(s, 1, k - 1)>> \o split(SubSeq(s, k + 1, Len(s)))

\* String.prototype.trim
RECURSIVE trim(_)
trim(s) ==
    IF s = <<>> THEN s
    ELSE IF Head(s) = " " THEN trim(Tail(s))
    ELSE IF s[Len(s)] = " " THEN trim(SubSeq(s, 1, Len(s) - 1))
    ELSE s

\* tagsInput.split(',').map(t => t.trim()).filter(t => t)
ParseTags(tagsInput) ==
    SelectSeq([i \in DOMAIN split(tagsInput) |-> trim(split(tagsInput)[i])],
              LAMBDA t : t # <<>>)

\* job.tags.join(', ')
RECURSIVE join(_)
join(tags) ==
    IF tags = <<>> THEN <<>>
    ELSE IF Len(tags) = 1 THEN tags[1]
    ELSE tags[1] \o <<",", " ">> \o join(Tail(tags))

\* new Date(dueDate) as a number of days; new Date('') is an Invalid Date
ValidDate(d) == d # ""
DateValue(d) == CASE d = "2024-06-01" -> 1 [] d = "2024-06-02" -> 2


\* ------------------------------------------------------ persistence store
\* a faulty put: it adds the record and keeps the one it should replace
PutKeepsOld(S, job) == S \cup {job}
\* objectStore.put(job) under keyPath 'id': insert, or replace the record
\* stored under the same key
Put(S, job) == {r \in S : r.id # job.id} \cup {job}

\* a faulty delete: its key matches no record
DeleteMisses(S, id) == S
\* objectStore.delete(id)
Delete(S, id) == {r \in S : r.id # id}

\* objectStore.getAll(): every record, in key order
RECURSIVE GetAll(_)
GetAll(S) ==
    IF S = {} THEN <<>>
    ELSE LET first == CHOOSE r \in S : \A o \in S : r.id <= o.id
         IN <<first>> \o GetAll(S \ {first})

\* ------------------------------------------------------------ loadJobs
\* the comparator (a, b) => new Date(a.dueDate) - new Date(b.dueDate); the
\* difference with an Invalid Date is NaN, which sort takes as +0
CompareDue(a, b) ==
    IF ValidDate(a.dueDate) /\ ValidDate(b.dueDate)
    THEN DateValue(a.dueDate) - DateValue(b.dueDate)
    ELSE 0
\* a faulty insertion: the latest due date comes first
InsertByDueDescending(sorted, job) ==
    LET before == SelectSeq(sorted, LAMBDA o : CompareDue(o, job) >= 0)
        after == SelectSeq(sorted, LAMBDA o : CompareDue(o, job) < 0)
    IN before \o <<job>> \o after
\* Array.prototype.sort with a consistent comparator: a stable insertion by
\* due date
RECURSIVE SortByDue(_)
InsertByDue(sorted, job) ==
    LET before == SelectSeq(sorted, LAMBDA o : CompareDue(o, job) <= 0)
        after == SelectSeq(sorted, LAMBDA o : CompareDue(o, job) > 0)
    IN before \o <<job>> \o after
SortByDue(js) ==
    IF js = <<>> THEN <<>>
    ELSE InsertByDue(SortByDue(SubSeq(js, 1, Len(js) - 1)), js[Len(js)])
\* the comparator is consistent on js unless an Invalid Date, equal to every
\* date, stands next to two different valid dates
ConsistentComparator(js) ==
    ~ \E i, j, k \in DOMAIN js :
          /\ ~ValidDate(js[i].dueDate)
          /\ ValidDate(js[j].dueDate) /\ ValidDate(js[k].dueDate)
          /\ js[j].dueDate # js[k].dueDate
\* the orders of js
Orderings(js) ==
    { [i \in DOMAIN js |-> js[p[i]]] :
        p \in { q \in [DOMAIN js -> DOMAIN js] :
                  \A i, j \in DOMAIN js : q[i] = q[j] => i = j } }
\* the outcomes of AppState.jobs.sort(...): the sorted order, or, with a
\* comparator that is not consistent, an order the implementation chooses
sort(js) == IF ConsistentComparator(js) THEN {SortByDue(js)} ELSE Orderings(js)

\* the values AppState.jobs can have after loadJobs, given the store the
\* getAll request reads
loadJobs(S) == sort(GetAll(S))

\* ------------------------------------------------------------- rendering
IdsOf(js) == [i \in DOMAIN js |-> js[i].id]

\* a faulty filter: it looks at the title alone
PassesFilterTitleOnly(job, query) ==
    \/ query = <<>>
    \/ includes(toLowerCase(job.title), query)
\* the filter of renderCurrentView
PassesFilter(job, query) ==
    \/ query = <<>>
    \/ includes(toLowerCase(job.title), query)
    \/ \E i \in DOMAIN job.tags : includes(toLowerCase(job.tags[i]), query)
FilterJobs(js, query) == SelectSeq(js, LAMBDA job : PassesFilter(job, query))

\* renderKanban: the forEach over the jobs, one card and one count at a time
EmptyBoard ==
    [cols |-> [c \in ColumnSet |-> <<>>], counts |-> [c \in ColumnSet |-> 0]]
\* a faulty placement: the card is added, the column's count is not
PlaceCardUncounted(b, job) ==
    IF job.status \in ColumnSet
    THEN [cols |-> [b.cols EXCEPT ![job.status] = Append(@, job.id)],
          counts |-> b.counts]
    ELSE b
PlaceCard(b, job) ==
    IF job.status \in ColumnSet
    THEN [cols |-> [b.cols EXCEPT ![job.status] = Append(@, job.id)],
          counts |-> [b.counts EXCEPT ![job.status] = @ + 1]]
    ELSE b
RECURSIVE renderKanban(_)
renderKanban(js) ==
    IF js = <<>> THEN EmptyBoard
    ELSE PlaceCard(renderKanban(SubSeq(js, 1, Len(js) - 1)), js[Len(js)])

\* renderList: one row per job
renderList(js) == IdsOf(js)

\* renderRecentActivity: the empty state, or the first five
RecentLimit == 5
renderRecentActivity(js) ==
    IF Len(js) = 0
    THEN [items |-> <<>>, empty |-> TRUE]
    ELSE [items |-> IdsOf(SubSeq(js, 1, IF Len(js) < RecentLimit
                                        THEN Len(js) ELSE RecentLimit)),
          empty |-> FALSE]

\* updateStats
CountWhere(js, P(_)) == Len(SelectSeq(js, P))
updateStats(js) ==
    [total |-> Len(js),
     active |-> CountWhere(js, LAMBDA j : j.status = "in-progress"),
     completed |-> CountWhere(js, LAMBDA j : j.status = "done"),
     pending |-> CountWhere(js, LAMBDA j : j.status = "todo" \/ j.status = "review")]

\* ------------------------------------------------------------------ form
\* the job handleSaveJob builds from the form fields
JobFromForm(f, id, now) ==
    [id |-> id, title |-> f.title, desc |-> f.desc, status |-> f.status,
     priority |-> f.priority, dueDate |-> f.date, tags |-> ParseTags(f.tags),
     updatedAt |-> now]

\* the form after openModal(job)
FormFromJob(job) ==
    [id |-> job.id, title |-> job.title, desc |-> job.desc,
     status |-> job.status, priority |-> job.priority, date |-> job.dueDate,
     tags |-> join(job.tags)]

\* the user overwrites the visible fields
Typed(f, in) ==
    [f EXCEPT !.title = in.title, !.status = in.status, !.date = in.date,
              !.tags = in.tags]

\* ----------------------------------------------------------------- state
VARIABLES
    store,        \* the 'jobs' object store: a set of records, one per key
    jobs,         \* AppState.jobs
    view,         \* AppState.view
    filter,       \* AppState.filter
    listening,    \* setupEventListeners has run
    alerted,      \* initApp has shown its alert
    modalOpen,    \* the modal is shown
    form,         \* the fields of the job form
    pending,      \* store requests issued and not completed, oldest first
    uuidCount,    \* ids in use so far; crypto.randomUUID() gives the next one
    clock,        \* the time, advanced by every user event
    filteredJobs, \* the ids renderCurrentView last passed to a renderer
    board,        \* the kanban columns and their counts, as last rendered
    table,        \* the rows of the list view, as last rendered
    recent,       \* the dashboard's recent list, as last rendered
    stats,        \* the four summary numbers, as last written
    styles,       \* the cards with class 'dragging', the columns highlighted
    last          \* history: the handler that acted last and what it did

vars == <<store, jobs, view, filter, listening, alerted, modalOpen, form,
          pending, uuidCount, clock, filteredJobs, board, table, recent,
          stats, styles, last>>
dom == <<filteredJobs, board, table, recent, stats, styles>>

NoJob == JobFromForm(FormBlank, 0, 0)
NoPre == [store |-> {}, jobs |-> <<>>]

\* a store request and the handler run that awaits it.  id and arg name what
\* the handler was invoked with, log is what it has done so far, pre is the
\* store and AppState.jobs it started from
Request(op, job, h, id, arg, log, pre) ==
    [op |-> op, job |-> job, h |-> h, id |-> id, arg |-> arg, log |-> log,
     pre |-> pre]
\* the record `last` keeps of a handler run
Ran(h, id, arg, log, fin, ok, pre) ==
    [h |-> h, id |-> id, arg |-> arg, log |-> log, fin |-> fin, ok |-> ok,
     pre |-> pre]
Here == [store |-> store, jobs |-> jobs]

\* stores an earlier session can have left behind: records saved from the form
InitialStores ==
    { { JobFromForm(Typed(FormBlank, FormSeq[i]), i, 0) : i \in 1..n } :
        n \in 0..Len(FormSeq) }
    \cup { { JobFromForm(Typed(FormBlank, FormSeq[(i % 2) + 1]), i, 0) :
              i \in 1..(RecentLimit + 1) } }

Init ==
    /\ store \in InitialStores
    /\ jobs = <<>>
    /\ view = "dashboard"
    /\ filter = <<>>
    /\ listening = FALSE
    /\ alerted = FALSE
    /\ modalOpen = FALSE
    /\ form = FormBlank
    /\ pending = <<Request("open", NoJob, "init", 0, "", <<"db.init">>, NoPre)>>
    /\ uuidCount = Cardinality(store)
    /\ clock = 0
    /\ filteredJobs = <<>>
    /\ board = EmptyBoard
    /\ table = <<>>
    /\ recent = [items |-> <<>>, empty |-> FALSE]
    /\ stats = updateStats(<<>>)
    /\ styles = [dragging |-> {}, highlight |-> {}]
    /\ last = Ran("init", 0, "", <<"db.init">>, FALSE, TRUE, NoPre)

\* a faulty render: the statistics are taken over the filtered jobs
renderCurrentViewStatsOfFiltered(js, q, v) ==
    /\ filteredJobs' = IdsOf(FilterJobs(js, q))
    /\ board' = IF v = "kanban" THEN renderKanban(FilterJobs(js, q)) ELSE board
    /\ table' = IF v = "list" THEN renderList(FilterJobs(js, q)) ELSE table
    /\ recent' = IF v = "dashboard" THEN renderRecentActivity(FilterJobs(js, q))
                 ELSE recent
    /\ stats' = updateStats(FilterJobs(js, q))
    /\ styles' = IF v = "kanban" THEN [styles EXCEPT !.dragging = {}] ELSE styles
\* renderCurrentView() over AppState.jobs = js, AppState.filter = q and
\* AppState.view = v: filter, render the active view, update the statistics
renderCurrentView(js, q, v) ==
    /\ filteredJobs' = IdsOf(FilterJobs(js, q))
    /\ board' = IF v = "kanban" THEN renderKanban(FilterJobs(js, q)) ELSE board
    /\ table' = IF v = "list" THEN renderList(FilterJobs(js, q)) ELSE table
    /\ recent' = IF v = "dashboard" THEN renderRecentActivity(FilterJobs(js, q))
                 ELSE recent
    /\ stats' = updateStats(js)
    /\ styles' = IF v = "kanban" THEN [styles EXCEPT !.dragging = {}] ELSE styles

\* ids of the cards on the board and of the rows of the table
CardIds == UNION { {board.cols[c][i] : i \in DOMAIN board.cols[c]} : c \in ColumnSet }
RowIds == {table[i] : i \in DOMAIN table}
\* AppState.jobs.findIndex(j => j.id === id), 0 for -1
findIndex(js, id) ==
    IF \E i \in DOMAIN js : js[i].id = id
    THEN CHOOSE i \in DOMAIN js : js[i].id = id /\ \A k \in 1..(i - 1) : js[k].id # id
    ELSE 0

\* a user event can be delivered: the listeners are installed, time passes
UserEvent ==
    /\ listening
    /\ clock < MaxClock
    /\ clock' = clock + 1

\* ----------------------------------------------------------- user events
\* click on a navigation link
Navigate(v) ==
    /\ UserEvent
    /\ view' = v
    /\ renderCurrentView(jobs, filter, v)
    /\ last' = Ran("navigate", 0, v, <<"renderCurrentView">>, TRUE, TRUE, NoPre)
    /\ UNCHANGED <<store, jobs, filter, listening, alerted, modalOpen, form,
                   pending, uuidCount>>

\* a faulty search handler: it keeps only the matching jobs in AppState.jobs
SearchNarrowsJobs(text) ==
    /\ UserEvent
    /\ filter' = toLowerCase(text)
    /\ jobs' = FilterJobs(jobs, toLowerCase(text))
    /\ renderCurrentView(jobs', toLowerCase(text), view)
    /\ last' = Ran("search", 0, "", <<"renderCurrentView">>, TRUE, TRUE, NoPre)
    /\ UNCHANGED <<store, view, listening, alerted, modalOpen, form,
                   pending, uuidCount>>
\* input in the search box
Search(text) ==
    /\ UserEvent
    /\ filter' = toLowerCase(text)
    /\ renderCurrentView(jobs, toLowerCase(text), view)
    /\ last' = Ran("search", 0, "", <<"renderCurrentView">>, TRUE, TRUE, NoPre)
    /\ UNCHANGED <<store, jobs, view, listening, alerted, modalOpen, form,
                   pending, uuidCount>>

\* click on the add button: openModal()
OpenCreate ==
    /\ UserEvent
    /\ modalOpen' = TRUE
    /\ form' = FormBlank
    /\ last' = Ran("openModal", 0, "", <<>>, TRUE, TRUE, NoPre)
    /\ UNCHANGED <<store, jobs, view, filter, listening, alerted, pending,
                   uuidCount, dom>>

\* click on a kanban card or on the edit button of a list row: openModal(job)
OpenEdit(id) ==
    /\ UserEvent
    /\ \/ view = "kanban" /\ id \in CardIds
       \/ view = "list" /\ id \in RowIds
    /\ modalOpen' = TRUE
    /\ form' = FormFromJob(jobs[findIndex(jobs, id)])
    /\ last' = Ran("openModal", id, "", <<>>, TRUE, TRUE, NoPre)
    /\ UNCHANGED <<store, jobs, view, filter, listening, alerted, pending,
                   uuidCount, dom>>

\* the user fills in the form
FillForm(in) ==
    /\ UserEvent
    /\ modalOpen
    /\ form' = Typed(form, in)
    /\ last' = Ran("fill", form.id, "", <<>>, TRUE, TRUE, NoPre)
    /\ UNCHANGED <<store, jobs, view, filter, listening, alerted, modalOpen,
                   pending, uuidCount, dom>>

\* click on a close button: closeModal()
CloseModal ==
    /\ UserEvent
    /\ modalOpen
    /\ modalOpen' = FALSE
    /\ last' = Ran("closeModal", 0, "", <<>>, TRUE, TRUE, NoPre)
    /\ UNCHANGED <<store, jobs, view, filter, listening, alerted, form,
                   pending, uuidCount, dom>>

\* submit of the form: handleSaveJob() up to its await of db.addJob(job)
Submit ==
    /\ UserEvent
    /\ modalOpen
    /\ Len(pending) < MaxPending
    /\ form.id = 0 => uuidCount < MaxIds
    /\ LET id == IF form.id # 0 THEN form.id ELSE uuidCount + 1
           kind == IF form.id = 0 THEN "create"
                   ELSE IF last.h = "openModal" THEN "edit unchanged"
                   ELSE "edit"
           job == JobFromForm(form, id, clock + 1)
       IN /\ pending' = Append(pending,
                 Request("put", job, "save", id, kind, <<"addJob">>, Here))
          /\ last' = Ran("save", id, kind, <<"addJob">>, FALSE, TRUE, Here)
    /\ uuidCount' = IF form.id # 0 THEN uuidCount ELSE uuidCount + 1
    /\ UNCHANGED <<store, jobs, view, filter, listening, alerted, modalOpen,
                   form, dom>>

\* click on the delete button of a kanban card, and the answer to confirm()
DeleteClick(id, confirmed) ==
    /\ UserEvent
    /\ view = "kanban"
    /\ id \in CardIds
    /\ IF confirmed
       THEN /\ Len(pending) < MaxPending
            /\ pending' = Append(pending,
                   Request("delete", NoJob, "delete", id, "", <<"deleteJob">>, Here))
            /\ last' = Ran("delete", id, "", <<"deleteJob">>, FALSE, TRUE, Here)
       ELSE /\ pending' = pending
            /\ last' = Ran("delete", id, "declined", <<>>, TRUE, TRUE, Here)
    /\ UNCHANGED <<store, jobs, view, filter, listening, alerted, modalOpen,
                   form, uuidCount, dom>>

\* drop on the kanban column col of a drag whose text/plain data is id (the
\* id of a card on the board, or 0 for a drag that did not start on a card):
\* dragstart on a kanban card: the id goes into the dataTransfer
DragStart(id) ==
    /\ UserEvent
    /\ view = "kanban"
    /\ id \in CardIds
    /\ styles' = [styles EXCEPT !.dragging = @ \cup {id}]
    /\ last' = Ran("dragstart", id, "", <<>>, TRUE, TRUE, Here)
    /\ UNCHANGED <<store, jobs, view, filter, listening, alerted, modalOpen,
                   form, pending, uuidCount, filteredJobs, board, table,
                   recent, stats>>

\* dragend on a kanban card
DragEnd(id) ==
    /\ UserEvent
    /\ view = "kanban"
    /\ id \in CardIds
    /\ styles' = [styles EXCEPT !.dragging = @ \ {id}]
    /\ last' = Ran("dragend", id, "", <<>>, TRUE, TRUE, Here)
    /\ UNCHANGED <<store, jobs, view, filter, listening, alerted, modalOpen,
                   form, pending, uuidCount, filteredJobs, board, table,
                   recent, stats>>

\* dragover on a kanban column
DragOver(col) ==
    /\ UserEvent
    /\ view = "kanban"
    /\ styles' = [styles EXCEPT !.highlight = @ \cup {col}]
    /\ last' = Ran("dragover", 0, col, <<>>, TRUE, TRUE, Here)
    /\ UNCHANGED <<store, jobs, view, filter, listening, alerted, modalOpen,
                   form, pending, uuidCount, filteredJobs, board, table,
                   recent, stats>>

\* dragleave on a kanban column
DragLeave(col) ==
    /\ UserEvent
    /\ view = "kanban"
    /\ styles' = [styles EXCEPT !.highlight = @ \ {col}]
    /\ last' = Ran("dragleave", 0, col, <<>>, TRUE, TRUE, Here)
    /\ UNCHANGED <<store, jobs, view, filter, listening, alerted, modalOpen,
                   form, pending, uuidCount, filteredJobs, board, table,
                   recent, stats>>

\* a faulty drop handler: it saves the job whatever its status was
DropSavesAlways(id, col) ==
    /\ UserEvent
    /\ view = "kanban"
    /\ id \in CardIds \cup {0}
    /\ styles' = [styles EXCEPT !.highlight = @ \ {col}]
    /\ LET jobIndex == findIndex(jobs, id) IN
       IF jobIndex > 0
       THEN /\ Len(pending) < MaxPending
            /\ jobs' = [jobs EXCEPT ![jobIndex].status = col]
            /\ pending' = Append(pending,
                   Request("put", jobs'[jobIndex], "drop", id, col,
                           <<"status=", "addJob">>, Here))
            /\ last' = Ran("drop", id, col, <<"status=", "addJob">>, FALSE, TRUE, Here)
       ELSE /\ UNCHANGED <<jobs, pending>>
            /\ last' = Ran("drop", id, col, <<>>, TRUE, TRUE, Here)
    /\ UNCHANGED <<store, view, filter, listening, alerted, modalOpen, form,
                   uuidCount, filteredJobs, board, table, recent, stats>>
\* the drop handler up to its await of db.addJob
Drop(id, col) ==
    /\ UserEvent
    /\ view = "kanban"
    /\ id \in CardIds \cup {0}
    /\ styles' = [styles EXCEPT !.highlight = @ \ {col}]
    /\ LET jobIndex == findIndex(jobs, id) IN
       IF jobIndex > 0 /\ jobs[jobIndex].status # col
       THEN /\ Len(pending) < MaxPending
            /\ jobs' = [jobs EXCEPT ![jobIndex].status = col]
            /\ pending' = Append(pending,
                   Request("put", jobs'[jobIndex], "drop", id, col,
                           <<"status=", "addJob">>, Here))
            /\ last' = Ran("drop", id, col, <<"status=", "addJob">>, FALSE, TRUE, Here)
       ELSE /\ UNCHANGED <<jobs, pending>>
            /\ last' = Ran("drop", id, col, <<>>, TRUE, TRUE, Here)
    /\ UNCHANGED <<store, view, filter, listening, alerted, modalOpen, form,
                   uuidCount, filteredJobs, board, table, recent, stats>>

\* ---------------------------------------------- completion of requests
\* The oldest request succeeds and the handler awaiting it runs on.
Oldest == Head(pending)
Then(req, op, what) ==
    Request(op, NoJob, req.h, req.id, req.arg, Append(req.log, what), req.pre)
Finished(req, log, ok) == Ran(req.h, req.id, req.arg, log, TRUE, ok, req.pre)

\* a faulty initApp: the listeners are installed before the initial load
InitOpenedListens ==
    /\ pending # <<>>
    /\ Oldest.op = "open"
    /\ pending' = Append(Tail(pending), Then(Oldest, "getAll", "loadJobs"))
    /\ listening' = TRUE
    /\ last' = Ran("init", 0, "", Append(Oldest.log, "loadJobs"), FALSE, TRUE, NoPre)
    /\ UNCHANGED <<store, jobs, view, filter, alerted, modalOpen,
                   form, uuidCount, clock, dom>>
\* initApp: db.init() resolved, loadJobs() issues getAll
InitOpened ==
    /\ pending # <<>>
    /\ Oldest.op = "open"
    /\ pending' = Append(Tail(pending), Then(Oldest, "getAll", "loadJobs"))
    /\ last' = Ran("init", 0, "", Append(Oldest.log, "loadJobs"), FALSE, TRUE, NoPre)
    /\ UNCHANGED <<store, jobs, view, filter, listening, alerted, modalOpen,
                   form, uuidCount, clock, dom>>

\* initApp: loadJobs() resolved; setupEventListeners, renderCurrentView,
\* updateStats
InitLoaded ==
    /\ pending # <<>>
    /\ Oldest.op = "getAll" /\ Oldest.h = "init"
    /\ jobs' \in loadJobs(store)
    /\ listening' = TRUE
    /\ renderCurrentView(jobs', filter, view)
    /\ pending' = Tail(pending)
    /\ last' = Finished(Oldest,
                 Oldest.log \o <<"setupEventListeners", "renderCurrentView">>, TRUE)
    /\ UNCHANGED <<store, view, filter, alerted, modalOpen, form, uuidCount,
                   clock>>

\* handleSaveJob: db.addJob(job) resolved, loadJobs() issues getAll
SavePut ==
    /\ pending # <<>>
    /\ Oldest.op = "put" /\ Oldest.h = "save"
    /\ store' = Put(store, Oldest.job)
    /\ pending' = Append(Tail(pending), Then(Oldest, "getAll", "loadJobs"))
    /\ last' = Ran("save", Oldest.id, "", Append(Oldest.log, "loadJobs"), FALSE,
                   TRUE, Oldest.pre)
    /\ UNCHANGED <<jobs, view, filter, listening, alerted, modalOpen, form,
                   uuidCount, clock, dom>>

\* handleSaveJob: loadJobs() resolved; renderCurrentView, closeModal
SaveLoaded ==
    /\ pending # <<>>
    /\ Oldest.op = "getAll" /\ Oldest.h = "save"
    /\ jobs' \in loadJobs(store)
    /\ renderCurrentView(jobs', filter, view)
    /\ modalOpen' = FALSE
    /\ pending' = Tail(pending)
    /\ last' = Finished(Oldest,
                 Oldest.log \o <<"renderCurrentView", "closeModal">>, TRUE)
    /\ UNCHANGED <<store, view, filter, listening, alerted, form, uuidCount,
                   clock>>

\* delete handler: db.deleteJob(id) resolved, loadJobs() issues getAll
DeleteDone ==
    /\ pending # <<>>
    /\ Oldest.op = "delete"
    /\ store' = Delete(store, Oldest.id)
    /\ pending' = Append(Tail(pending), Then(Oldest, "getAll", "loadJobs"))
    /\ last' = Ran("delete", Oldest.id, "", Append(Oldest.log, "loadJobs"),
                   FALSE, TRUE, Oldest.pre)
    /\ UNCHANGED <<jobs, view, filter, listening, alerted, modalOpen, form,
                   uuidCount, clock, dom>>

\* delete handler: loadJobs() resolved; renderCurrentView
DeleteLoaded ==
    /\ pending # <<>>
    /\ Oldest.op = "getAll" /\ Oldest.h = "delete"
    /\ jobs' \in loadJobs(store)
    /\ renderCurrentView(jobs', filter, view)
    /\ pending' = Tail(pending)
    /\ last' = Finished(Oldest, Append(Oldest.log, "renderCurrentView"), TRUE)
    /\ UNCHANGED <<store, view, filter, listening, alerted, modalOpen, form,
                   uuidCount, clock>>

\* drop handler: db.addJob resolved; renderCurrentView
DropPut ==
    /\ pending # <<>>
    /\ Oldest.op = "put" /\ Oldest.h = "drop"
    /\ store' = Put(store, Oldest.job)
    /\ renderCurrentView(jobs, filter, view)
    /\ pending' = Tail(pending)
    /\ last' = Finished(Oldest, Append(Oldest.log, "renderCurrentView"), TRUE)
    /\ UNCHANGED <<jobs, view, filter, listening, alerted, modalOpen, form,
                   uuidCount, clock>>

\* The oldest request fails (request.onerror): its promise rejects, the
\* handler awaiting it stops there; initApp catches and alerts.
RequestFails ==
    /\ pending # <<>>
    /\ pending' = Tail(pending)
    /\ alerted' = (alerted \/ Oldest.h = "init")
    /\ last' = Finished(Oldest, Oldest.log, FALSE)
    /\ UNCHANGED <<store, jobs, view, filter, listening, modalOpen, form,
                   uuidCount, clock, dom>>

Next ==
    \/ \E v \in ViewNames : Navigate(v)
    \/ \E text \in SearchInputs : Search(text)
    \/ OpenCreate
    \/ \E id \in 1..MaxIds : OpenEdit(id)
    \/ \E in \in FormInputs : FillForm(in)
    \/ CloseModal
    \/ Submit
    \/ \E id \in 1..MaxIds, confirmed \in BOOLEAN : DeleteClick(id, confirmed)
    \/ \E id \in 1..MaxIds : DragStart(id)
    \/ \E id \in 1..MaxIds : DragEnd(id)
    \/ \E col \in ColumnSet : DragOver(col)
    \/ \E col \in ColumnSet : DragLeave(col)
    \/ \E id \in 0..MaxIds, col \in ColumnSet : Drop(id, col)
    \/ InitOpened
    \/ InitLoaded
    \/ SavePut
    \/ SaveLoaded
    \/ DeleteDone
    \/ DeleteLoaded
    \/ DropPut
    \/ RequestFails

Spec == Init /\ [][Next]_vars

\* ================================================================ claims
\* a handler run has just ended with a render of the state as it now is
Rendered ==
    /\ last.fin /\ last.ok
    /\ \E i \in DOMAIN last.log : last.log[i] = "renderCurrentView"
RecordsOf(js) == {js[i] : i \in DOMAIN js}
\* the calls a handler made to the store, the reload and the renderer, in order
Calls(log) ==
    SelectSeq(log, LAMBDA x : x \in {"addJob", "deleteJob", "loadJobs",
                                      "renderCurrentView"})

\* C1: whenever no handler is in flight, AppState.jobs holds exactly the
\* records of the store, field for field (every write goes to the store
\* first and is followed by a reload; nothing changes AppState.jobs in
\* memory ahead of or without a store write).
C1_JobsMirrorStore ==
    (listening /\ pending = <<>>) =>
        /\ RecordsOf(jobs) = store
        /\ Len(jobs) = Cardinality(store)

\* C2: when the store write of a handler fails, the action is aborted and
\* the store and AppState.jobs are what they were when the action started.
C2_FailedWriteLeavesState ==
    (/\ last.fin /\ ~last.ok
     /\ last.h \in {"save", "delete", "drop"}
     /\ Calls(last.log) \in {<<"addJob">>, <<"deleteJob">>})
    => (store = last.pre.store /\ jobs = last.pre.jobs)

\* C3: handlers are never interleaved (at most one handler awaits the store
\* at any time), so no update of a handler is lost to another one: when a
\* drop handler ends its write, AppState.jobs still shows the dropped job
\* with the status it was dropped on.
C3_HandlersNeverInterleave ==
    /\ Len(pending) <= 1
    /\ (last.h = "drop" /\ last.fin /\ last.ok /\ last.log # <<>>) =>
           \A i \in DOMAIN jobs : jobs[i].id = last.id => jobs[i].status = last.arg

\* C4: after the drop of job j on a column of another status s completes,
\* the stored record of j has status s and is otherwise unchanged, every
\* other stored record is unchanged, the record count and the total are
\* unchanged, and the handler did upsert, then reload, then re-render.
C4_DropUpsertReloadRender ==
    (last.h = "drop" /\ last.fin /\ last.ok /\ last.log # <<>>) =>
        /\ \E r \in store :
              /\ r.id = last.id /\ r.status = last.arg
              /\ \E o \in last.pre.store : r = [o EXCEPT !.status = last.arg]
        /\ {r \in store : r.id # last.id} = {r \in last.pre.store : r.id # last.id}
        /\ Cardinality(store) = Cardinality(last.pre.store)
        /\ stats.total = Len(last.pre.jobs)
        /\ Calls(last.log) = <<"addJob", "loadJobs", "renderCurrentView">>

\* C5: upsert(r) followed by getAll returns exactly one record with r.id,
\* equal to r field for field; a previous record of that id is replaced,
\* records of other ids are untouched, and a second upsert(r) changes nothing.
UpsertDone(r) ==
    /\ Cardinality({x \in store' : x.id = r.id}) = 1
    /\ Len(SelectSeq(GetAll(store'), LAMBDA x : x.id = r.id)) = 1
    /\ \E i \in DOMAIN GetAll(store') : GetAll(store')[i] = r
    /\ {x \in store' : x.id # r.id} = {x \in store : x.id # r.id}
    /\ Put(store', r) = store'
C5_UpsertReplaces == [][(SavePut \/ DropPut) => UpsertDone(Oldest.job)]_vars
\* a drop has rewritten the record of one job while another job is stored
C5_Witness ==
    /\ last.h = "drop" /\ last.fin /\ last.ok /\ last.log # <<>>
    /\ Cardinality(store) = 2
    /\ \E r \in store : r.id = last.id /\ r.status = last.arg /\ r \notin last.pre.store
    /\ \E o \in last.pre.store : o.id = last.id

\* C6: delete(id) followed by getAll returns no record with that id; if the
\* id was not stored the collection is unchanged, and if it was, only that
\* record is gone.
DeleteJobDone(id) ==
    /\ \A x \in store' : x.id # id
    /\ \A i \in DOMAIN GetAll(store') : GetAll(store')[i].id # id
    /\ (\A x \in store : x.id # id) => store' = store
    /\ \A x \in store : x.id = id => store' = store \ {x}
C6_DeleteRemovesOnlyThatId == [][DeleteDone => DeleteJobDone(Oldest.id)]_vars
\* a delete has just removed a stored record and left another one stored
C6_Witness ==
    /\ last.h = "delete" /\ ~last.fin /\ last.log = <<"deleteJob", "loadJobs">>
    /\ \E o \in last.pre.store : o.id = last.id
    /\ \A x \in store : x.id # last.id
    /\ store # {}

\* C7: the delete interaction removes a record only on confirmation: declined,
\* it makes no store call and leaves the store and AppState.jobs as they
\* were; accepted, once the handler has completed neither the store nor
\* AppState.jobs holds a record of that id and the total is one less.
C7_DeleteOnlyOnConfirm ==
    /\ (last.h = "delete" /\ last.arg = "declined") =>
           /\ Calls(last.log) = <<>>
           /\ store = last.pre.store /\ jobs = last.pre.jobs
    /\ (last.h = "delete" /\ last.arg # "declined" /\ last.fin /\ last.ok) =>
           /\ \A x \in store : x.id # last.id
           /\ \A i \in DOMAIN jobs : jobs[i].id # last.id
           /\ Len(jobs) = Len(last.pre.jobs) - 1
           /\ stats.total = Len(last.pre.jobs) - 1

\* C8: the jobs passed to the renderer of the active view are exactly the
\* jobs j of AppState.jobs for which the filter q is empty, or lowercase
\* j.title contains q, or the lowercase of some tag of j contains q; the
\* dashboard, the board and the list all show jobs of that set.
Contains(s, q) ==
    \E a \in 0..Len(s), b \in 0..Len(s) : a <= b /\ SubSeq(s, a + 1, b) = q
Matching(js, q) ==
    { js[i].id : i \in { k \in DOMAIN js :
        \/ q = <<>>
        \/ Contains(toLowerCase(js[k].title), q)
        \/ \E t \in DOMAIN js[k].tags : Contains(toLowerCase(js[k].tags[t]), q) } }
Range(f) == {f[i] : i \in DOMAIN f}
C8_FilterIsExact ==
    Rendered =>
        /\ Range(filteredJobs) = Matching(jobs, filter)
        /\ Len(filteredJobs) = Cardinality(Matching(jobs, filter))
        /\ view = "list" => Range(table) = Matching(jobs, filter)
        /\ view = "kanban" =>
               CardIds = {jobs[i].id : i \in {k \in DOMAIN jobs :
                             /\ jobs[k].id \in Matching(jobs, filter)
                             /\ jobs[k].status \in ColumnSet}}
        /\ view = "dashboard" =>
               /\ Range(recent.items) \subseteq Matching(jobs, filter)
               /\ recent.empty <=> Matching(jobs, filter) = {}
\* a render under a non-empty filter that keeps one job and drops another
C8_Witness ==
    /\ Rendered
    /\ filter # <<>>
    /\ Len(filteredJobs) > 0
    /\ Len(filteredJobs) < Len(jobs)

\* C9: in a kanban render every filtered job with one of the four statuses
\* is in exactly one column, the one of its status; every column's count is
\* the number of its cards; a job of any other status is in no column.
C9_KanbanBuckets ==
    (Rendered /\ view = "kanban") =>
        /\ \A i \in DOMAIN jobs :
              LET on(c) == {k \in DOMAIN board.cols[c] : board.cols[c][k] = jobs[i].id}
              IN IF jobs[i].id \in Matching(jobs, filter) /\ jobs[i].status \in ColumnSet
                 THEN /\ Cardinality(on(jobs[i].status)) = 1
                      /\ \A c \in ColumnSet \ {jobs[i].status} : on(c) = {}
                 ELSE \A c \in ColumnSet : on(c) = {}
        /\ \A c \in ColumnSet : board.counts[c] = Len(board.cols[c])
\* a kanban render of a job on the board and of a job the board leaves out
C9_Witness ==
    /\ Rendered /\ view = "kanban"
    /\ \E c \in ColumnSet : board.counts[c] > 0
    /\ \E i \in DOMAIN jobs :
          jobs[i].status \notin ColumnSet /\ jobs[i].id \in Range(filteredJobs)

\* C10: after every render the four statistics are the counts over the whole
\* of AppState.jobs, whatever the active view and the search filter.
C10_StatsOverAllJobs ==
    Rendered =>
        /\ stats.total = Cardinality(DOMAIN jobs)
        /\ stats.active =
               Cardinality({i \in DOMAIN jobs : jobs[i].status = "in-progress"})
        /\ stats.completed =
               Cardinality({i \in DOMAIN jobs : jobs[i].status = "done"})
        /\ stats.pending =
               Cardinality({i \in DOMAIN jobs : jobs[i].status \in {"todo", "review"}})
\* a render outside the dashboard whose filter hides a job the total counts
C10_Witness ==
    /\ Rendered
    /\ view # "dashboard" /\ filter # <<>>
    /\ Len(filteredJobs) < stats.total
    /\ stats.pending > 0

\* C11: the form validates its required fields before writing: a submit
\* whose title is empty performs no upsert, so no record with an empty
\* title is ever in the store, nor on its way to it.
C11_NoEmptyTitleStored ==
    /\ \A r \in store : r.title # <<>>
    /\ \A i \in DOMAIN pending :
           pending[i].op = "put" => pending[i].job.title # <<>>

\* the ids of a set of records
StoreIds(S) == { r.id : r \in S }
\* C12: record ids are unique and immutable: a submit of the create form
\* writes under a fresh id and the store grows by exactly one record; a
\* submit of the edit form and a kanban drop write under the job's existing
\* id and leave the number of records unchanged; no two records of the
\* store, and no two entries of AppState.jobs, ever share an id.
C12_IdsUniqueAndImmutable ==
    /\ [](/\ \A r1, r2 \in store : r1.id = r2.id => r1 = r2
          /\ \A i, j \in DOMAIN jobs : jobs[i].id = jobs[j].id => i = j)
    /\ [][SavePut =>
            IF Oldest.arg = "create"
            THEN /\ Oldest.job.id \notin StoreIds(store)
                 /\ Cardinality(store') = Cardinality(store) + 1
            ELSE /\ Oldest.job.id \in StoreIds(store)
                 /\ Cardinality(store') = Cardinality(store)]_vars
    /\ [][DropPut =>
            /\ Oldest.job.id \in StoreIds(store)
            /\ Cardinality(store') = Cardinality(store)]_vars

\* a user event handled by handler h has just been delivered
Delivered(h) == clock' # clock /\ last'.h = h
\* C13: navigate and search input make no store access and change nothing
\* but their own selector: navigate changes only the active view, search only
\* the search filter, and both leave the store and AppState.jobs unchanged;
\* opening the create or edit form changes neither the store nor
\* AppState.jobs.
C13_SelectorsOnly ==
    [][/\ Delivered("navigate") =>
              UNCHANGED <<store, jobs, pending, filter, modalOpen, form>>
       /\ Delivered("search") =>
              UNCHANGED <<store, jobs, pending, view, modalOpen, form>>
       /\ Delivered("openModal") =>
              UNCHANGED <<store, jobs, pending, view, filter>>]_vars
\* a search has just hidden some of the loaded jobs
C13_Witness ==
    /\ last.h = "search"
    /\ filter # <<>>
    /\ store # {}
    /\ Len(filteredJobs) < Len(jobs)

\* C14: if the opening of the store or the initial load fails, the start of
\* the application is aborted with an alert: no listeners are installed, so
\* no event is ever delivered, no store request is issued afterwards, and
\* AppState.jobs stays empty.
C14_FailedStartAborts ==
    /\ (last.h = "init" /\ last.fin /\ ~last.ok) => alerted
    /\ alerted => /\ ~listening
                  /\ jobs = <<>>
                  /\ pending = <<>>
                  /\ clock = 0
                  /\ last.h = "init" /\ ~last.ok
\* the initial load of a store that holds records has failed
C14_Witness ==
    /\ alerted
    /\ store # {}
    /\ \E i \in DOMAIN last.log : last.log[i] = "loadJobs"

\* the jobs of js that have a valid due date stand in non-decreasing order of it
InDueDateOrder(js) ==
    \A i, j \in DOMAIN js :
        (i < j /\ ValidDate(js[i].dueDate) /\ ValidDate(js[j].dueDate)) =>
            DateValue(js[i].dueDate) <= DateValue(js[j].dueDate)
\* the first n entries of js, all of them when there are fewer
FirstN(js, n) == SubSeq(js, 1, IF Len(js) < n THEN Len(js) ELSE n)
\* the jobs of js that match the query, in the order of js
MatchingJobs(js, q) == SelectSeq(js, LAMBDA j : j.id \in Matching(js, q))
\* C15: in every dashboard render the items shown are the first min(5, n) of
\* the n filtered jobs in ascending order of due date, the empty-state
\* message is shown iff n = 0, and AppState.jobs is in non-decreasing
\* due-date order whenever it is rendered.
C15_DashboardNearestDue ==
    (Rendered /\ view = "dashboard") =>
        /\ InDueDateOrder(jobs)
        /\ filteredJobs = IdsOf(MatchingJobs(jobs, filter))
        /\ InDueDateOrder(MatchingJobs(jobs, filter))
        /\ recent.items = FirstN(filteredJobs, RecentLimit)
        /\ recent.empty <=> filteredJobs = <<>>

\* C15 as amended: the items shown are the first min(5, n) of the n filtered
\* jobs in the order of AppState.jobs, the empty-state message is shown iff
\* n = 0, and that order is ascending by due date unless the loaded jobs
\* combine an invalid due date with two different valid ones.
C15_NearestDueOfComparable ==
    (Rendered /\ view = "dashboard") =>
        /\ filteredJobs = IdsOf(MatchingJobs(jobs, filter))
        /\ recent.items = FirstN(filteredJobs, RecentLimit)
        /\ recent.empty <=> filteredJobs = <<>>
        /\ ConsistentComparator(jobs) =>
               /\ InDueDateOrder(jobs)
               /\ InDueDateOrder(MatchingJobs(jobs, filter))
\* the dashboard shows five of more than five jobs that have different due dates
C15_Witness ==
    /\ Rendered /\ view = "dashboard"
    /\ Len(filteredJobs) > RecentLimit
    /\ Len(recent.items) = RecentLimit
    /\ \E i, j \in DOMAIN jobs : jobs[i].dueDate # jobs[j].dueDate

\* C16: drag start, drag over, drag leave and drag end, and a drop on the
\* column of the job's own status or of an id that is not in AppState.jobs,
\* perform no store write and leave the store and AppState.jobs unchanged.
C16_DragIsVisualOnly ==
    [][/\ (\/ Delivered("dragstart") \/ Delivered("dragover")
           \/ Delivered("dragleave") \/ Delivered("dragend")) =>
              UNCHANGED <<store, jobs, pending>>
       /\ (/\ Delivered("drop")
           /\ \/ findIndex(jobs, last'.id) = 0
              \/ jobs[findIndex(jobs, last'.id)].status = last'.arg) =>
              UNCHANGED <<store, jobs, pending>>]_vars
\* a card has just been dropped on the column it was already in
C16_Witness ==
    /\ last.h = "drop" /\ last.fin /\ last.log = <<>>
    /\ \E i \in DOMAIN jobs : jobs[i].id = last.id /\ jobs[i].status = last.arg
    /\ store = last.pre.store /\ jobs = last.pre.jobs

\* C17: every save of a record sets its updatedAt: a form submit and a
\* kanban drop both hand the store a record whose updatedAt is the time of
\* that save.
C17_SaveStampsUpdatedAt ==
    [][\A i \in DOMAIN pending' :
          (i > Len(pending) /\ pending'[i].op = "put") =>
              pending'[i].job.updatedAt = clock']_vars

\* C18: edit round trip: for a stored job, opening the edit form for it and
\* submitting without changing a field writes a record whose id, title,
\* description, status, priority, dueDate and tags equal the stored
\* original's, so that only updatedAt differs, and the number of records is
\* unchanged.  The first conjunct states it of the record the opened form
\* holds, the second of the record the submit hands to the store.
C18_EditRoundTrip ==
    /\ []((/\ modalOpen
            /\ last.h = "openModal" /\ last.id # 0
            /\ last.id \in StoreIds(store)) =>
              \E r \in store : JobFromForm(form, form.id, r.updatedAt) = r)
    /\ [][(/\ last.h = "openModal" /\ last.id # 0
           /\ Delivered("save")
           /\ last.id \in StoreIds(store)) =>
              LET job == pending'[Len(pending')].job
              IN \E r \in store : [job EXCEPT !.updatedAt = r.updatedAt] = r]_vars
    /\ [][(SavePut /\ Oldest.arg = "edit unchanged"
                   /\ Oldest.id \in StoreIds(Oldest.pre.store)) =>
              Cardinality(store') = Cardinality(store)]_vars

====
